---- MODULE Spec2Model ----
(***************************************************************************)
(* Model of the CONWIP production-line simulation:                         *)
(*   simulation_engine/discrete_event_sim.py  (Event, DiscreteEventSimulator)*)
(*   simulation_engine/production_line.py     (Station, ProductionLine)     *)
(*                                                                         *)
(* Time is counted in ticks of 0.001 time units, so the clamp              *)
(* max(0.001, processing_time) is max(1, d).  Random draws (exponential    *)
(* inter-arrival times, gamma service times) are nondeterministic choices  *)
(* from bounded sets.                                                      *)
(***************************************************************************)
EXTENDS Integers, Sequences, FiniteSets, TLC

\* ---------------------------------------------------------------- bounds
MaxStations == 2      \* num_stations ranges over 1..MaxStations
MaxConwip   == 3      \* conwip_level ranges over 1..MaxConwip
MaxMean     == 2      \* mean_processing_time ranges over 1..MaxMean
MaxGamma    == 2      \* a gamma service sample ranges over 0..MaxGamma
MaxInter    == 2      \* an exponential inter-arrival sample ranges over 1..MaxInter
MaxDuration == 4      \* run(duration) with duration in 1..MaxDuration
MaxRuns     == 2      \* run() calls since construction or the last reset()
LongDuration == 5     \* the duration of the one run of SpecOneRun
MaxWarmup   == 3      \* get_statistics(warmup_period) with warmup in 0..MaxWarmup
MaxEvents   == 3      \* simulator.run(max_events = k) with k in 0..MaxEvents
MaxRate     == 3      \* factory physics: rates range over 1..MaxRate

\* ------------------------------------------------------ program constants
MinProcessingTime == 1        \* the 0.001 of max(0.001, processing_time)
None == -1                    \* Python's None for station_id / entity_id / current_job

ARRIVAL        == "arrival"
PROCESSING_END == "processing_end"

IDLE       == "idle"
PROCESSING == "processing"
BLOCKED    == "blocked"
STARVED    == "starved"

VARIABLES
    num_stations,          \* ProductionLine.num_stations
    conwip_level,          \* ProductionLine.conwip_level
    stations,              \* ProductionLine.stations: 0..num_stations-1 -> Station
    entity_counter,        \* ProductionLine.entity_counter
    system_wip,            \* ProductionLine.system_wip
    completed_jobs,        \* ProductionLine.completed_jobs
    job_arrival_times,     \* ProductionLine.job_arrival_times
    job_completion_times,  \* ProductionLine.job_completion_times
    clock,                 \* DiscreteEventSimulator.clock
    event_queue,           \* DiscreteEventSimulator.event_queue (heap array)
    stats,                 \* DiscreteEventSimulator.stats
    pc,                    \* "idle": between calls; "running": inside simulator.run
    max_time,              \* argument of the simulator.run in progress
    event,                 \* local variable `event` of simulator.run (last popped)
    scheduled,             \* history: number of schedule_event calls (stamps Event.seq)
    idle_elapsed,          \* history: per station, clock time spent in state IDLE
    runs,                  \* history: run() calls since construction / reset()
    arrival_rate,          \* ProductionLine.arrival_rate
    max_events,            \* argument of the simulator.run in progress
    raised,                \* exception raised by the last call ("none" if it returned)
    call,                  \* history: the call last made in SpecCalls or SpecPhysics,
                           \* with its arguments (and the value it returned)
    visited,               \* history: per job, the stations whose ProcessingEnd handled it
    generated              \* history: the times of the Arrival events scheduled by
                           \* generate_arrivals since construction / reset()

vars == << num_stations, conwip_level, stations, entity_counter, system_wip,
           completed_jobs, job_arrival_times, job_completion_times, clock,
           event_queue, stats, pc, max_time, event, scheduled, idle_elapsed,
           runs, arrival_rate, max_events, raised, call, visited,
           generated >>

\* ------------------------------------------------------------------ Event
\* Event dataclass; seq is a history stamp (insertion number), never read by the code
Event(time, event_type, station_id, entity_id) ==
    [time |-> time, event_type |-> event_type, station_id |-> station_id,
     entity_id |-> entity_id, seq |-> 0]

NoEvent == [time |-> 0, event_type |-> "none", station_id |-> None,
            entity_id |-> None, seq |-> 0]

\* Event.__lt__: compares the time only
EventLt_ByTimeAndSeq(a, b) ==
    \/ a.time < b.time
    \/ a.time = b.time /\ a.seq < b.seq

EventLt(a, b) == a.time < b.time

\* ------------------------------------------------------------------ heapq
\* heap positions are 0-based as in Python; heap[p + 1] is Python's heap[p]
RECURSIVE siftdown_loop(_, _, _, _)
siftdown_loop(heap, startpos, pos, newitem) ==
    IF pos > startpos
    THEN LET parentpos == (pos - 1) \div 2
             parent    == heap[parentpos + 1]
         IN  IF EventLt(newitem, parent)
             THEN siftdown_loop([heap EXCEPT ![pos + 1] = parent],
                                startpos, parentpos, newitem)
             ELSE [heap EXCEPT ![pos + 1] = newitem]
    ELSE [heap EXCEPT ![pos + 1] = newitem]

siftdown(heap, startpos, pos) ==
    siftdown_loop(heap, startpos, pos, heap[pos + 1])

RECURSIVE siftup_loop(_, _, _, _)
siftup_loop(heap, startpos, pos, newitem) ==
    LET endpos   == Len(heap)
        leftpos  == 2 * pos + 1
        rightpos == leftpos + 1
    IN  IF leftpos < endpos
        THEN LET childpos ==
                     IF rightpos < endpos
                        /\ ~EventLt(heap[leftpos + 1], heap[rightpos + 1])
                     THEN rightpos ELSE leftpos
             IN  siftup_loop([heap EXCEPT ![pos + 1] = heap[childpos + 1]],
                             startpos, childpos, newitem)
        ELSE siftdown([heap EXCEPT ![pos + 1] = newitem], startpos, pos)

siftup(heap, pos) == siftup_loop(heap, pos, pos, heap[pos + 1])

heappush(heap, item) ==
    siftdown(Append(heap, item), 0, Len(heap))

\* heappop: << returned item, heap afterwards >>; requires heap # << >>
heappop_Last(heap) ==
    << heap[Len(heap)], SubSeq(heap, 1, Len(heap) - 1) >>

heappop(heap) ==
    LET lastelt == heap[Len(heap)]
        rest    == SubSeq(heap, 1, Len(heap) - 1)
    IN  IF rest # << >>
        THEN << rest[1], siftup([rest EXCEPT ![1] = lastelt], 0) >>
        ELSE << lastelt, rest >>

\* ---------------------------------------------------------------- Station
Station_StartsProcessing(mean, cv) ==
    [mean_processing_time |-> mean, cv_processing |-> cv,
     state |-> PROCESSING, current_job |-> None, queue |-> << >>,
     total_processed |-> 0, total_processing_time |-> 0,
     total_idle_time |-> 0, total_blocked_time |-> 0,
     total_starved_time |-> 0, last_state_change_time |-> 0]

Station(mean, cv) ==
    [mean_processing_time |-> mean, cv_processing |-> cv,
     state |-> IDLE, current_job |-> None, queue |-> << >>,
     total_processed |-> 0, total_processing_time |-> 0,
     total_idle_time |-> 0, total_blocked_time |-> 0,
     total_starved_time |-> 0, last_state_change_time |-> 0]

\* Station.get_processing_time; gamma is the np.random.gamma sample
get_processing_time_IgnoresCv(station, gamma) == gamma

get_processing_time(station, gamma) ==
    IF station.cv_processing = 0 THEN station.mean_processing_time
    ELSE IF station.cv_processing > 0 THEN gamma
    ELSE station.mean_processing_time

\* Station.update_statistics
update_statistics(station, current_time) ==
    LET time_elapsed == current_time - station.last_state_change_time
        s1 == IF station.state = IDLE
              THEN [station EXCEPT !.total_idle_time = @ + time_elapsed]
              ELSE IF station.state = BLOCKED
              THEN [station EXCEPT !.total_blocked_time = @ + time_elapsed]
              ELSE IF station.state = STARVED
              THEN [station EXCEPT !.total_starved_time = @ + time_elapsed]
              ELSE station
    IN  [s1 EXCEPT !.last_state_change_time = current_time]

\* ---------------------------------------------------- line state as a record
\* The handlers are written as functions from line state to line state.
Line ==
    [stations |-> stations, entity_counter |-> entity_counter,
     system_wip |-> system_wip, completed_jobs |-> completed_jobs,
     job_arrival_times |-> job_arrival_times,
     job_completion_times |-> job_completion_times,
     clock |-> clock, event_queue |-> event_queue, scheduled |-> scheduled]

\* DiscreteEventSimulator.schedule_event
schedule_event(L, ev) ==
    [L EXCEPT !.event_queue = heappush(@, [ev EXCEPT !.seq = L.scheduled + 1]),
              !.scheduled = @ + 1]

Max(a, b) == IF a >= b THEN a ELSE b

\* max(0.001, processing_time)
ClampProcessingTime(processing_time) == Max(MinProcessingTime, processing_time)

InSeq(x, s) == \E i \in 1..Len(s) : s[i] = x

\* _try_start_processing: station.state = PROCESSING; station.current_job = job_id
start_job_KeepsIdle(station, job_id) ==
    [station EXCEPT !.current_job = job_id]

start_job(station, job_id) ==
    [station EXCEPT !.state = PROCESSING, !.current_job = job_id]

\* ProductionLine._try_start_processing
try_start_processing_SchedulesWhenQueued(L, station_id, job_id, gamma) ==
    LET station == L.stations[station_id]
        processing_time ==
            ClampProcessingTime(get_processing_time(station, gamma))
        end_event == Event(L.clock + processing_time, PROCESSING_END,
                           station_id, job_id)
    IN  IF station.state = IDLE
        THEN LET st1 == start_job(station, job_id)
                 st2 == update_statistics(st1, L.clock)
             IN  schedule_event([L EXCEPT !.stations[station_id] = st2], end_event)
        ELSE IF ~InSeq(job_id, station.queue)
             THEN schedule_event(
                      [L EXCEPT !.stations[station_id].queue = Append(@, job_id)],
                      end_event)
             ELSE L

try_start_processing_GuardInverted(L, station_id, job_id, gamma) ==
    LET station == L.stations[station_id] IN
    IF station.state = IDLE
    THEN LET st1 == start_job(station, job_id)
             st2 == update_statistics(st1, L.clock)
             processing_time == ClampProcessingTime(get_processing_time(st2, gamma))
             end_event == Event(L.clock + processing_time, PROCESSING_END,
                                station_id, job_id)
         IN  schedule_event([L EXCEPT !.stations[station_id] = st2], end_event)
    ELSE IF InSeq(job_id, station.queue)
         THEN [L EXCEPT !.stations[station_id].queue = Append(@, job_id)]
         ELSE L

try_start_processing(L, station_id, job_id, gamma) ==
    LET station == L.stations[station_id] IN
    IF station.state = IDLE
    THEN LET st1 == start_job(station, job_id)
             st2 == update_statistics(st1, L.clock)
             processing_time == ClampProcessingTime(get_processing_time(st2, gamma))
             end_event == Event(L.clock + processing_time, PROCESSING_END,
                                station_id, job_id)
         IN  schedule_event([L EXCEPT !.stations[station_id] = st2], end_event)
    ELSE IF ~InSeq(job_id, station.queue)
         THEN [L EXCEPT !.stations[station_id].queue = Append(@, job_id)]
         ELSE L

\* the admission test of _handle_arrival
CanAdmit_AtCap(L) == L.system_wip <= conwip_level

CanAdmit(L) == L.system_wip < conwip_level

\* ProductionLine._handle_arrival
handle_arrival_CountsRejected(L, ev, gamma) ==
    LET job_id == L.entity_counter + 1
        L0 == [L EXCEPT !.entity_counter = job_id]
    IN  IF CanAdmit(L)
        THEN LET L1 == [L0 EXCEPT !.system_wip = @ + 1,
                                  !.job_arrival_times = @ @@ (job_id :> L.clock)]
             IN  try_start_processing(L1, 0, job_id, gamma)
        ELSE L0

handle_arrival(L, ev, gamma) ==
    IF CanAdmit(L)
    THEN LET job_id == L.entity_counter + 1
             L1 == [L EXCEPT !.entity_counter = job_id,
                             !.system_wip = @ + 1,
                             !.job_arrival_times = @ @@ (job_id :> L.clock)]
         IN  try_start_processing(L1, 0, job_id, gamma)
    ELSE L

\* the "job completed" branch of _handle_processing_end
complete_job_KeepsWip(L, job_id) ==
    LET L1 == [L EXCEPT
                 !.job_completion_times =
                     (job_id :> L.clock) @@ @,
                 !.completed_jobs = Append(@, job_id)]
    IN  IF L1.system_wip < conwip_level
        THEN schedule_event(L1, Event(L1.clock, ARRIVAL, None, None))
        ELSE L1

complete_job_NoReseed(L, job_id) ==
    [L EXCEPT
       !.job_completion_times = (job_id :> L.clock) @@ @,
       !.completed_jobs = Append(@, job_id),
       !.system_wip = @ - 1]

complete_job_TestsBeforeDecrement(L, job_id) ==
    LET L1 == [L EXCEPT
                 !.job_completion_times =
                     (job_id :> L.clock) @@ @,
                 !.completed_jobs = Append(@, job_id),
                 !.system_wip = @ - 1]
    IN  IF L.system_wip < conwip_level
        THEN schedule_event(L1, Event(L1.clock, ARRIVAL, None, None))
        ELSE L1

complete_job(L, job_id) ==
    LET L1 == [L EXCEPT
                 !.job_completion_times =
                     (job_id :> L.clock) @@ @,
                 !.completed_jobs = Append(@, job_id),
                 !.system_wip = @ - 1]
    IN  IF L1.system_wip < conwip_level
        THEN schedule_event(L1, Event(L1.clock, ARRIVAL, None, None))
        ELSE L1

\* station.queue.pop(0): << popped job, queue afterwards >>
queue_pop0_KeepsHead(q) == << Head(q), q >>

queue_pop0_PopsLast(q) == << q[Len(q)], SubSeq(q, 1, Len(q) - 1) >>

queue_pop0(q) == << Head(q), Tail(q) >>

\* _handle_processing_end: station_id < self.num_stations - 1
HasNextStation_OffByOne(station_id) == station_id < num_stations - 2

HasNextStation(station_id) == station_id < num_stations - 1

\* ProductionLine._handle_processing_end
handle_processing_end_NoDrain(L, ev, gamma1, gamma2) ==
    LET station_id == ev.station_id
        job_id     == ev.entity_id
        st1 == [L.stations[station_id] EXCEPT
                   !.total_processed = @ + 1,
                   !.current_job = None,
                   !.state = IDLE]
        st2 == update_statistics(st1, L.clock)
        L1  == [L EXCEPT !.stations[station_id] = st2]
    IN  IF HasNextStation(station_id)
        THEN try_start_processing(L1, station_id + 1, job_id, gamma1)
        ELSE complete_job(L1, job_id)

handle_processing_end_AccumulatesTime(L, ev, gamma1, gamma2) ==
    LET station_id == ev.station_id
        job_id     == ev.entity_id
        st1 == [L.stations[station_id] EXCEPT
                   !.total_processed = @ + 1,
                   !.total_processing_time =
                       @ + (L.clock - L.stations[station_id].last_state_change_time),
                   !.current_job = None,
                   !.state = IDLE]
        st2 == update_statistics(st1, L.clock)
        L1  == [L EXCEPT !.stations[station_id] = st2]
        L2  == IF HasNextStation(station_id)
               THEN try_start_processing(L1, station_id + 1, job_id, gamma1)
               ELSE complete_job(L1, job_id)
        q   == L2.stations[station_id].queue
    IN  IF q # << >>
        THEN try_start_processing(
                 [L2 EXCEPT !.stations[station_id].queue = queue_pop0(q)[2]],
                 station_id, queue_pop0(q)[1], gamma2)
        ELSE L2

handle_processing_end(L, ev, gamma1, gamma2) ==
    LET station_id == ev.station_id
        job_id     == ev.entity_id
        st1 == [L.stations[station_id] EXCEPT
                   !.total_processed = @ + 1,
                   !.current_job = None,
                   !.state = IDLE]
        st2 == update_statistics(st1, L.clock)
        L1  == [L EXCEPT !.stations[station_id] = st2]
        L2  == IF HasNextStation(station_id)
               THEN try_start_processing(L1, station_id + 1, job_id, gamma1)
               ELSE complete_job(L1, job_id)
        q   == L2.stations[station_id].queue
    IN  IF q # << >>
        THEN try_start_processing(
                 [L2 EXCEPT !.stations[station_id].queue = queue_pop0(q)[2]],
                 station_id, queue_pop0(q)[1], gamma2)
        ELSE L2

\* dispatch through DiscreteEventSimulator.event_handlers
handle(L, ev, gamma1, gamma2) ==
    IF ev.event_type = ARRIVAL THEN handle_arrival(L, ev, gamma1)
    ELSE IF ev.event_type = PROCESSING_END
    THEN handle_processing_end(L, ev, gamma1, gamma2)
    ELSE L

\* ------------------------------------------------------ generate_arrivals
\* ProductionLine.generate_arrivals: ia is the sequence of exponential samples
\* the loop consumes; the loop ends with the sample that reaches the duration
RECURSIVE generate_loop(_, _, _, _, _)
generate_loop(L, duration, current_time, ia, k) ==
    IF current_time < duration /\ k <= Len(ia)
    THEN LET t == current_time + ia[k]
         IN  generate_loop(
                 IF t < duration
                 THEN schedule_event(L, Event(t, ARRIVAL, None, None))
                 ELSE L,
                 duration, t, ia, k + 1)
    ELSE L

generate_arrivals(L, duration, ia) == generate_loop(L, duration, 0, ia, 1)

RECURSIVE SumTo(_, _)
SumTo(s, n) == IF n = 0 THEN 0 ELSE s[n] + SumTo(s, n - 1)

\* the times of the Arrival events that loop schedules, in the order scheduled
arrival_times(duration, ia) ==
    LET n == Cardinality({ k \in 1..Len(ia) : SumTo(ia, k) < duration })
    IN  [k \in 1..n |-> SumTo(ia, k)]

\* the sample sequences that generate_arrivals consumes exactly (every sample
\* is at least 1, so the loop draws at most duration samples)
InterArrivalSamples(duration) ==
    { ia \in UNION { [1..n -> 1..MaxInter] : n \in 1..duration } :
        /\ SumTo(ia, Len(ia)) >= duration
        /\ SumTo(ia, Len(ia) - 1) < duration }

\* ----------------------------------------------------------- get_statistics
\* the station updates made by ProductionLine.get_statistics
\* (update_statistics in the first loop, again inside get_utilization)
flush_statistics(sts, now) ==
    [s \in DOMAIN sts |-> update_statistics(update_statistics(sts[s], now), now)]

\* a quotient of two integers p / q (q > 0), kept exact
Ratio(p, q) == [num |-> p, den |-> q]

Zero == Ratio(0, 1)

RatioTimes(a, b) == Ratio(a.num * b.num, a.den * b.den)

RatioEq(a, b) == a.num * b.den = b.num * a.den

RatioPositive(a) == a.num > 0

\* the cycle times get_statistics collects: completed jobs found in both
\* tables whose arrival is not before the warmup period, in completion order
cycle_times_StrictWarmup(jobs, arrivals, completions, warmup_period) ==
    LET counted ==
          SelectSeq(jobs,
                    LAMBDA j : /\ j \in DOMAIN arrivals
                               /\ j \in DOMAIN completions
                               /\ arrivals[j] > warmup_period)
    IN  [i \in 1..Len(counted) |-> completions[counted[i]] - arrivals[counted[i]]]

cycle_times(jobs, arrivals, completions, warmup_period) ==
    LET counted ==
          SelectSeq(jobs,
                    LAMBDA j : /\ j \in DOMAIN arrivals
                               /\ j \in DOMAIN completions
                               /\ arrivals[j] >= warmup_period)
    IN  [i \in 1..Len(counted) |-> completions[counted[i]] - arrivals[counted[i]]]

\* the dictionary returned by ProductionLine.get_statistics (station_stats
\* apart)
get_statistics_ReportsCurrentWip(L, warmup_period) ==
    LET ct == cycle_times(L.completed_jobs, L.job_arrival_times,
                          L.job_completion_times, warmup_period)
        total_time == L.clock - warmup_period
    IN  [throughput |-> IF total_time > 0 THEN Ratio(Len(ct), total_time) ELSE Zero,
         avg_cycle_time |->
            IF Len(ct) > 0 THEN Ratio(SumTo(ct, Len(ct)), Len(ct)) ELSE Zero,
         avg_wip |-> Ratio(L.system_wip, 1),
         total_completed |-> Len(ct),
         simulation_time |-> L.clock]

get_statistics(L, warmup_period) ==
    LET ct == cycle_times(L.completed_jobs, L.job_arrival_times,
                          L.job_completion_times, warmup_period)
        total_time == L.clock - warmup_period
        throughput ==
            IF total_time > 0 THEN Ratio(Len(ct), total_time) ELSE Zero
        avg_cycle_time ==
            IF Len(ct) > 0 THEN Ratio(SumTo(ct, Len(ct)), Len(ct)) ELSE Zero
        avg_wip ==
            IF RatioPositive(avg_cycle_time)
            THEN RatioTimes(throughput, avg_cycle_time) ELSE Zero
    IN  [throughput |-> throughput,
         avg_cycle_time |-> avg_cycle_time,
         avg_wip |-> avg_wip,
         total_completed |-> Len(ct),
         simulation_time |-> L.clock]

\* Station.get_utilization after its own update_statistics: the share of
\* current_time not spent idle, blocked or starved
get_utilization(station, current_time) ==
    LET st == update_statistics(station, current_time)
        total_time == current_time
        processing_time == total_time - st.total_idle_time
                           - st.total_blocked_time - st.total_starved_time
    IN  IF total_time > 0 THEN Ratio(processing_time, total_time) ELSE Zero

\* the station_stats list of the dictionary get_statistics returns, built
\* after the first loop has brought every station's statistics up to the clock
station_stats(L) ==
    LET sts == [s \in DOMAIN L.stations |->
                   update_statistics(L.stations[s], L.clock)]
    IN  [s \in DOMAIN sts |->
            [station_id |-> s,
             utilization |-> get_utilization(sts[s], L.clock),
             total_processed |-> sts[s].total_processed,
             avg_processing_time |->
                IF sts[s].total_processed > 0
                THEN Ratio(sts[s].total_processing_time, sts[s].total_processed)
                ELSE Zero]]

\* ------------------------------------------------------------------ actions
StationIds == 0..(num_stations - 1)

\* ProductionLine.__init__ and DiscreteEventSimulator.__init__
Init ==
    /\ num_stations \in 1..MaxStations
    /\ conwip_level \in 1..MaxConwip
    /\ stations \in [0..(num_stations - 1) ->
                        { Station(m, cv) : m \in 1..MaxMean, cv \in {0, 1} }]
    /\ entity_counter = 0
    /\ system_wip = 0
    /\ completed_jobs = << >>
    /\ job_arrival_times = << >>
    /\ job_completion_times = << >>
    /\ clock = 0
    /\ event_queue = << >>
    /\ stats = [total_entities |-> 0, completed_entities |-> 0,
                events_processed |-> 0]
    /\ pc = "idle"
    /\ max_time = 0
    /\ event = NoEvent
    /\ scheduled = 0
    /\ idle_elapsed = [s \in 0..(num_stations - 1) |-> 0]
    /\ runs = 0
    /\ arrival_rate = 1
    /\ max_events = None
    /\ raised = "none"
    /\ call = [op |-> "none"]
    /\ visited = << >>
    /\ generated = << >>

SetLine(L) ==
    /\ stations' = L.stations
    /\ entity_counter' = L.entity_counter
    /\ system_wip' = L.system_wip
    /\ completed_jobs' = L.completed_jobs
    /\ job_arrival_times' = L.job_arrival_times
    /\ job_completion_times' = L.job_completion_times
    /\ clock' = L.clock
    /\ event_queue' = L.event_queue
    /\ scheduled' = L.scheduled

\* ProductionLine.run(duration), up to the entry of the simulator.run loop
Run(duration) ==
    /\ pc = "idle"
    /\ \E ia \in InterArrivalSamples(duration) :
         /\ SetLine(generate_arrivals(Line, duration, ia))
         /\ generated' = generated \o arrival_times(duration, ia)
    /\ max_time' = duration
    /\ pc' = "running"
    /\ event' = NoEvent
    /\ runs' = runs + 1
    /\ max_events' = None
    /\ UNCHANGED << num_stations, conwip_level, stats, idle_elapsed,
                    arrival_rate, raised, call, visited >>

RunStart ==
    /\ runs < MaxRuns
    /\ \E duration \in 1..MaxDuration : Run(duration)

\* the first run of a freshly constructed line, with a longer duration
RunOnce ==
    /\ runs = 0
    /\ Run(LongDuration)

\* the loop test of DiscreteEventSimulator.run
LoopContinues_CountsAfter ==
    /\ event_queue # << >>
    /\ ~(max_time # None /\ clock >= max_time)
    /\ ~(max_events # None /\ stats.events_processed > max_events)

LoopContinues ==
    /\ event_queue # << >>
    /\ ~(max_time # None /\ clock >= max_time)
    /\ ~(max_events # None /\ stats.events_processed >= max_events)

\* one iteration of the DiscreteEventSimulator.run loop
Dispatch ==
    /\ pc \in {"running", "sim_running"}
    /\ LoopContinues
    /\ LET popped == heappop(event_queue)
           ev     == popped[1]
           L0     == [Line EXCEPT !.event_queue = popped[2], !.clock = ev.time]
       IN  /\ event' = ev
           /\ \E gamma1, gamma2 \in 0..MaxGamma :
                SetLine(handle(L0, ev, gamma1, gamma2))
           /\ visited' =
                [j \in 1..entity_counter' |->
                    IF j \notin DOMAIN visited THEN << >>
                    ELSE IF ev.event_type = PROCESSING_END /\ ev.entity_id = j
                    THEN Append(visited[j], ev.station_id)
                    ELSE visited[j]]
           /\ idle_elapsed' =
                [s \in StationIds |->
                    IF stations[s].state = IDLE
                    THEN idle_elapsed[s] + (ev.time - clock)
                    ELSE idle_elapsed[s]]
    /\ stats' = [stats EXCEPT !.events_processed = @ + 1]
    /\ UNCHANGED << num_stations, conwip_level, pc, max_time, runs,
                    arrival_rate, max_events, raised, call, generated >>

\* simulator.run returns; ProductionLine.run ends with get_statistics
RunReturn ==
    /\ pc = "running"
    /\ ~LoopContinues
    /\ pc' = "idle"
    /\ stations' = flush_statistics(stations, clock)
    /\ UNCHANGED << num_stations, conwip_level, entity_counter, system_wip,
                    completed_jobs, job_arrival_times, job_completion_times,
                    clock, event_queue, stats, max_time, event, scheduled,
                    idle_elapsed, runs, arrival_rate, max_events, raised,
                    call, visited,
                    generated >>

\* Python list indexing self.stations[station_id] on a list of n stations:
\* an index in -n..n-1 is accepted (anything else raises IndexError), and a
\* negative index counts from the end of the list
IndexAccepted(n, station_id) == -n <= station_id /\ station_id < n

ListIndex(n, station_id) ==
    IF station_id >= 0 THEN station_id ELSE n + station_id

\* ProductionLine.update_parameters (None = argument not given)
update_parameters(sts, n, station_id, mean, cv) ==
    LET i == ListIndex(n, station_id) IN
    IF ~IndexAccepted(n, station_id)
    THEN [raised |-> "IndexError", stations |-> sts]
    ELSE [raised |-> "none",
          stations |->
             [sts EXCEPT
                ![i].mean_processing_time = IF mean # None THEN mean ELSE @,
                ![i].cv_processing = IF cv # None THEN cv ELSE @]]

\* update_parameters called between runs with a station id in 0..N-1
UpdateParameters ==
    /\ pc = "idle"
    /\ \E station_id \in StationIds :
         \E mean \in (1..MaxMean) \cup {None}, cv \in {0, 1, None} :
           stations' =
             update_parameters(stations, num_stations, station_id, mean, cv).stations
    /\ UNCHANGED << num_stations, conwip_level, entity_counter, system_wip,
                    completed_jobs, job_arrival_times, job_completion_times,
                    clock, event_queue, stats, pc, max_time, event, scheduled,
                    idle_elapsed, runs, arrival_rate, max_events, raised,
                    call, visited,
                    generated >>

\* the per-station loop body of ProductionLine.reset
reset_station_KeepsQueue(station) ==
    [station EXCEPT
       !.state = IDLE, !.current_job = None,
       !.total_processed = 0, !.total_processing_time = 0,
       !.total_idle_time = 0, !.total_blocked_time = 0,
       !.total_starved_time = 0, !.last_state_change_time = 0]

reset_station(station) ==
    [station EXCEPT
       !.state = IDLE, !.current_job = None, !.queue = << >>,
       !.total_processed = 0, !.total_processing_time = 0,
       !.total_idle_time = 0, !.total_blocked_time = 0,
       !.total_starved_time = 0, !.last_state_change_time = 0]

\* ProductionLine.reset and DiscreteEventSimulator.reset
Reset ==
    /\ pc = "idle"
    /\ clock' = 0
    /\ event_queue' = << >>
    /\ stats' = [total_entities |-> 0, completed_entities |-> 0,
                 events_processed |-> 0]
    /\ entity_counter' = 0
    /\ system_wip' = 0
    /\ completed_jobs' = << >>
    /\ job_arrival_times' = << >>
    /\ job_completion_times' = << >>
    /\ stations' = [s \in StationIds |-> reset_station(stations[s])]
    /\ scheduled' = 0
    /\ idle_elapsed' = [s \in StationIds |-> 0]
    /\ runs' = 0
    /\ visited' = << >>
    /\ generated' = << >>
    /\ UNCHANGED << num_stations, conwip_level, pc, max_time, event,
                    arrival_rate, max_events, raised, call >>

Next == RunStart \/ Dispatch \/ RunReturn \/ UpdateParameters \/ Reset

Spec == Init /\ [][Next]_vars

\* a line that is constructed and run once
NextOneRun == RunOnce \/ Dispatch \/ RunReturn

SpecOneRun == Init /\ [][NextOneRun]_vars

\* a line whose station parameters stay as constructed: runs and resets only
NextFixed == RunStart \/ Dispatch \/ RunReturn \/ Reset

SpecFixed == Init /\ [][NextFixed]_vars

\* ------------------------------------------- the simulator driven directly
\* line.generate_arrivals(duration) followed by
\* line.simulator.run(max_time = mt, max_events = k), up to the loop's entry
\* (mt may be omitted, k is always given)
SimulatorRunStart ==
    /\ pc = "idle"
    /\ runs < MaxRuns
    /\ \E duration \in 1..MaxDuration :
         \E ia \in InterArrivalSamples(duration) :
           /\ SetLine(generate_arrivals(Line, duration, ia))
           /\ generated' = generated \o arrival_times(duration, ia)
    /\ max_time' \in {None} \cup 1..MaxDuration
    /\ max_events' \in 0..MaxEvents
    /\ pc' = "sim_running"
    /\ event' = NoEvent
    /\ runs' = runs + 1
    /\ UNCHANGED << num_stations, conwip_level, stats, idle_elapsed,
                    arrival_rate, raised, call, visited >>

\* DiscreteEventSimulator.run leaves its loop and returns
SimulatorRunReturn ==
    /\ pc = "sim_running"
    /\ ~LoopContinues
    /\ pc' = "idle"
    /\ UNCHANGED << num_stations, conwip_level, stations, entity_counter,
                    system_wip, completed_jobs, job_arrival_times,
                    job_completion_times, clock, event_queue, stats, max_time,
                    event, scheduled, idle_elapsed, runs, arrival_rate,
                    max_events, raised, call, visited,
                    generated >>

NextSim == SimulatorRunStart \/ Dispatch \/ SimulatorRunReturn

SpecSim == Init /\ [][NextSim]_vars

\* ------------------------------------------------ construction and updates
\* defaults of ProductionLine.__init__: [1.0] * num_stations, in ticks
DefaultMean == 1000

DefaultCv == 1

\* an optional list argument: omitted (None), or a list
Omitted == [given |-> FALSE]

Given(list) == [given |-> TRUE, list |-> list]

ListsOver(S) == UNION { [1..k -> S] : k \in 0..(MaxStations + 1) }

\* the constructor's arguments that are enumerated: valid and invalid values
CtorMeans == {0, 1}

CtorCvs == {-2, 0}

CtorRates == {0, 1}

\* "mean_processing_times = [1.0] * num_stations" when the argument is None
ArgOrDefault(arg, n, default) ==
    IF arg.given THEN arg.list ELSE [i \in 1..n |-> default]

\* the list comprehension of __init__ reads positions 0..n-1 of both lists:
\* IndexError when one of them is shorter; nothing else is examined
CtorRaises(n, means, cvs) ==
    \/ n > Len(ArgOrDefault(means, n, DefaultMean))
    \/ n > Len(ArgOrDefault(cvs, n, DefaultCv))

\* the state before any line exists
InitNew ==
    /\ num_stations = 0
    /\ conwip_level = 0
    /\ stations = << >>
    /\ entity_counter = 0
    /\ system_wip = 0
    /\ completed_jobs = << >>
    /\ job_arrival_times = << >>
    /\ job_completion_times = << >>
    /\ clock = 0
    /\ event_queue = << >>
    /\ stats = [total_entities |-> 0, completed_entities |-> 0,
                events_processed |-> 0]
    /\ pc = "new"
    /\ max_time = 0
    /\ event = NoEvent
    /\ scheduled = 0
    /\ idle_elapsed = << >>
    /\ runs = 0
    /\ arrival_rate = 0
    /\ max_events = None
    /\ raised = "none"
    /\ call = [op |-> "none"]
    /\ visited = << >>
    /\ generated = << >>

\* ProductionLine.__init__
Construct ==
    /\ pc = "new"
    /\ \E n \in 0..MaxStations, c \in 0..MaxConwip, rate \in CtorRates :
       \E means \in {Omitted} \cup { Given(l) : l \in ListsOver(CtorMeans) },
          cvs \in {Omitted} \cup { Given(l) : l \in ListsOver(CtorCvs) } :
         /\ call' = [op |-> "__init__", num_stations |-> n, conwip_level |-> c,
                     mean_processing_times |-> means, cv_processing |-> cvs,
                     arrival_rate |-> rate]
         /\ IF CtorRaises(n, means, cvs)
            THEN /\ raised' = "IndexError"
                 /\ UNCHANGED << num_stations, conwip_level, arrival_rate,
                                 stations, idle_elapsed, pc >>
            ELSE /\ raised' = "none"
                 /\ num_stations' = n
                 /\ conwip_level' = c
                 /\ arrival_rate' = rate
                 /\ stations' =
                      [s \in 0..(n - 1) |->
                         Station(ArgOrDefault(means, n, DefaultMean)[s + 1],
                                 ArgOrDefault(cvs, n, DefaultCv)[s + 1])]
                 /\ idle_elapsed' = [s \in 0..(n - 1) |-> 0]
                 /\ pc' = "idle"
    /\ UNCHANGED << entity_counter, system_wip, completed_jobs,
                    job_arrival_times, job_completion_times, clock, event_queue,
                    stats, max_time, event, scheduled, runs, max_events,
                    visited,
                    generated >>

\* update_parameters called with any station id, in range or not
UpdateAny ==
    /\ pc = "idle"
    /\ \E station_id \in (-(MaxStations + 1))..MaxStations :
       \E mean \in (1..MaxMean) \cup {None}, cv \in {0, 1, None} :
         LET r == update_parameters(stations, num_stations, station_id, mean, cv)
         IN  /\ call' = [op |-> "update_parameters", station_id |-> station_id,
                         mean_processing_time |-> mean, cv_processing |-> cv]
             /\ raised' = r.raised
             /\ stations' = r.stations
    /\ UNCHANGED << num_stations, conwip_level, entity_counter, system_wip,
                    completed_jobs, job_arrival_times, job_completion_times,
                    clock, event_queue, stats, pc, max_time, event, scheduled,
                    idle_elapsed, runs, arrival_rate, max_events, visited,
                    generated >>

NextCalls == Construct \/ UpdateAny

\* the constructor and the parameter updates, with arbitrary arguments
SpecCalls == InitNew /\ [][NextCalls]_vars

\* ---------------------------------------------------------- factory physics
\* a station dictionary is a set of << key, value >> pairs
dict_get(d, key, default) ==
    IF \E p \in d : p[1] = key
    THEN (CHOOSE p \in d : p[1] = key)[2]
    ELSE default

\* station.get('processing_rate', 1.0)
DefaultRate == 1

RatioLess(a, b) == a.num * b.den < b.num * a.den

RatioMin(a, b) == IF RatioLess(b, a) THEN b ELSE a

\* calculate_utilization: min(arrival_rate / processing_rate, 1.0), or 1.0
\* when the processing rate is not positive
calculate_utilization(rate_in, processing_rate) ==
    IF processing_rate <= 0 THEN Ratio(1, 1)
    ELSE RatioMin(Ratio(rate_in, processing_rate), Ratio(1, 1))

\* np.argmax: the first position holding the maximum (positions from 0)
argmax(xs) ==
    CHOOSE i \in 0..(Len(xs) - 1) :
        /\ \A j \in 0..(Len(xs) - 1) : ~RatioLess(xs[i + 1], xs[j + 1])
        /\ \A j \in 0..(i - 1) : RatioLess(xs[j + 1], xs[i + 1])

\* calculate_bottleneck_station
calculate_bottleneck_station(sts, rate_in) ==
    LET utilizations ==
          [i \in 1..Len(sts) |->
              calculate_utilization(rate_in,
                                    dict_get(sts[i], "processing_rate", DefaultRate))]
    IN  argmax(utilizations)

\* calculate_system_throughput
calculate_system_throughput(sts, rate_in) ==
    LET bottleneck_idx == calculate_bottleneck_station(sts, rate_in)
        bottleneck_rate ==
            dict_get(sts[bottleneck_idx + 1], "processing_rate", DefaultRate)
    IN  IF rate_in <= bottleneck_rate THEN rate_in ELSE bottleneck_rate

\* the station dictionaries enumerated: with a processing rate, or empty
StationDicts == { {} } \cup { { << "processing_rate", r >> } : r \in 1..MaxRate }

\* no line exists; a call of calculate_system_throughput has been chosen
InitPhysics ==
    /\ num_stations = 0
    /\ conwip_level = 0
    /\ stations = << >>
    /\ entity_counter = 0
    /\ system_wip = 0
    /\ completed_jobs = << >>
    /\ job_arrival_times = << >>
    /\ job_completion_times = << >>
    /\ clock = 0
    /\ event_queue = << >>
    /\ stats = [total_entities |-> 0, completed_entities |-> 0,
                events_processed |-> 0]
    /\ pc = "new"
    /\ max_time = 0
    /\ event = NoEvent
    /\ scheduled = 0
    /\ idle_elapsed = << >>
    /\ runs = 0
    /\ arrival_rate = 0
    /\ max_events = None
    /\ raised = "none"
    /\ \E sts \in UNION { [1..k -> StationDicts] : k \in 0..(MaxStations + 1) },
          rate_in \in 1..(MaxRate + 1) :
         call = [op |-> "calculate_system_throughput", stations |-> sts,
                 arrival_rate |-> rate_in, returned |-> FALSE, value |-> 0]
    /\ visited = << >>
    /\ generated = << >>

\* the chosen call is made: np.argmax of an empty list raises ValueError
CalculateSystemThroughput ==
    /\ call.op = "calculate_system_throughput"
    /\ ~call.returned
    /\ raised = "none"
    /\ IF call.stations = << >>
       THEN /\ raised' = "ValueError"
            /\ call' = call
       ELSE /\ raised' = "none"
            /\ call' = [call EXCEPT
                          !.returned = TRUE,
                          !.value = calculate_system_throughput(call.stations,
                                                                call.arrival_rate)]
    /\ UNCHANGED << num_stations, conwip_level, stations, entity_counter,
                    system_wip, completed_jobs, job_arrival_times,
                    job_completion_times, clock, event_queue, stats, pc,
                    max_time, event, scheduled, idle_elapsed, runs,
                    arrival_rate, max_events, visited, generated >>

NextPhysics == CalculateSystemThroughput

SpecPhysics == InitPhysics /\ [][NextPhysics]_vars

\* =================================================================== claims
AdmittedJobs == 1..entity_counter

IsDispatchStep == stats'.events_processed = stats.events_processed + 1

\* C1: at every dispatch boundary 0 <= system_wip <= conwip_level
\* (conwip_level >= 1 in every initial state).
C1_WipWithinConwip == 0 <= system_wip /\ system_wip <= conwip_level

\* an Arrival was dispatched with the line at its cap and was dropped
C1_Witness ==
    /\ pc = "running"
    /\ event.event_type = ARRIVAL
    /\ system_wip = conwip_level
    /\ conwip_level >= 2
    /\ \A j \in DOMAIN job_arrival_times : job_arrival_times[j] # clock

\* C2: WIP conservation: system_wip is the number of admitted jobs minus the
\* number of completed jobs, which is the number of job ids with an arrival
\* time and no completion time.
C2_WipConservation ==
    /\ system_wip = entity_counter - Len(completed_jobs)
    /\ system_wip = Cardinality({ j \in DOMAIN job_arrival_times :
                                    j \notin DOMAIN job_completion_times })
    /\ DOMAIN job_arrival_times = AdmittedJobs

C2_Witness ==
    /\ Len(completed_jobs) >= 1
    /\ system_wip >= 1
    /\ event.event_type = PROCESSING_END

\* number of places that hold job j
Occurrences(j, q) == Cardinality({ i \in 1..Len(q) : q[i] = j })

RECURSIVE SumOver(_, _)
SumOver(f, S) ==
    IF S = {} THEN 0
    ELSE LET x == CHOOSE y \in S : TRUE IN f[x] + SumOver(f, S \ {x})

Places(j) ==
    SumOver([s \in StationIds |->
                (IF stations[s].current_job = j THEN 1 ELSE 0)
                + Occurrences(j, stations[s].queue)], StationIds)
    + Occurrences(j, completed_jobs)

\* C3: job uniqueness: every admitted job id is in exactly one place (one
\* station's current_job, one slot of one station's queue, or the completed
\* list), and nothing but admitted job ids is held anywhere.
C3_JobUniqueness ==
    /\ \A j \in AdmittedJobs : Places(j) = 1
    /\ \A s \in StationIds :
         /\ stations[s].current_job \in AdmittedJobs \cup {None}
         /\ \A i \in 1..Len(stations[s].queue) :
              stations[s].queue[i] \in AdmittedJobs
    /\ \A i \in 1..Len(completed_jobs) : completed_jobs[i] \in AdmittedJobs

\* one job waits in the last station's queue behind the job in service there,
\* after an earlier job went through the whole line
C3_Witness ==
    /\ num_stations >= 2
    /\ stations[1].queue # << >>
    /\ stations[1].current_job # None
    /\ completed_jobs # << >>

\* C4: station state consistency: every station is Idle with no current job or
\* Processing with a current job; Blocked and Starved are never reached.
C4_StationStateConsistent ==
    \A s \in StationIds :
        \/ stations[s].state = IDLE /\ stations[s].current_job = None
        \/ stations[s].state = PROCESSING /\ stations[s].current_job \in AdmittedJobs

\* a station went back to Idle after a ProcessingEnd while another is Processing
C4_Witness ==
    /\ num_stations >= 2
    /\ stations[0].state = IDLE
    /\ stations[0].total_processed >= 1
    /\ stations[1].state = PROCESSING

\* C5: clock monotonicity: within a run the time of each popped event is at
\* least the time of the event popped before it.
C5_ClockMonotoneWithinRun ==
    [][(pc = "running" /\ event # NoEvent /\ IsDispatchStep)
          => (event'.time >= event.time /\ clock' >= clock)]_vars

\* a run has dispatched several events and the clock has advanced
C5_Witness ==
    /\ pc = "running"
    /\ runs = 1
    /\ stats.events_processed >= 3
    /\ clock >= 2

\* C6: stable tie-breaking: the event popped by a dispatch is the first
\* scheduled among the pending events with the smallest timestamp.
C6_FifoAmongEqualTimes ==
    [][IsDispatchStep
          => \A i \in 1..Len(event_queue) :
                 ~EventLt_ByTimeAndSeq(event_queue[i], event')]_vars

\* C7: the clock never overshoots the time bound: a simulator.run entered with
\* clock <= max_time keeps clock <= max_time at every dispatch and on return.
C7_ClockWithinMaxTime ==
    [][(pc = "running" /\ clock <= max_time) => clock' <= max_time]_vars

\* C8: after every ProductionLine operation every pending event has
\* time >= the simulator clock.
C8_PendingNotBeforeClock ==
    pc = "idle" => \A i \in 1..Len(event_queue) : event_queue[i].time >= clock

\* C9: total_idle_time, plus the time since the last state change when the
\* station is Idle now, is the time the station has spent in state Idle.
C9_IdleTimeIsTimeSpentIdle ==
    \A s \in StationIds :
        stations[s].total_idle_time
          + (IF stations[s].state = IDLE
             THEN clock - stations[s].last_state_change_time ELSE 0)
        = idle_elapsed[s]

\* C10: time accounting identity: per station, the four time counters plus the
\* time since the last state change add up to the clock.
C10_TimeAccountingIdentity ==
    \A s \in StationIds :
        stations[s].total_idle_time + stations[s].total_blocked_time
          + stations[s].total_starved_time + stations[s].total_processing_time
          + (clock - stations[s].last_state_change_time)
        = clock

\* the pending PROCESSING_END events of station s
PendingEnds(s) ==
    { i \in 1..Len(event_queue) :
        /\ event_queue[i].event_type = PROCESSING_END
        /\ event_queue[i].station_id = s }

\* C11 (as stated): every station is Idle with no current job whenever
\* ProductionLine.run has returned.
C11_IdleWhenRunReturns ==
    pc = "idle" =>
        \A s \in StationIds :
            stations[s].state = IDLE /\ stations[s].current_job = None

\* C11 (amended): every station is Idle before the first run; when a run has
\* returned, a station is Idle with no current job or it is still Processing a
\* job whose ProcessingEnd is pending in the event queue.
C11_IdleOrMidServiceWhenRunReturns ==
    /\ (runs = 0 /\ pc = "idle") =>
          \A s \in StationIds :
              stations[s].state = IDLE /\ stations[s].current_job = None
    /\ pc = "idle" =>
          \A s \in StationIds :
              \/ stations[s].state = IDLE /\ stations[s].current_job = None
              \/ /\ stations[s].state = PROCESSING
                 /\ \E i \in PendingEnds(s) :
                        event_queue[i].entity_id = stations[s].current_job

\* a run has returned and left a station in the middle of a service
C11_Witness ==
    /\ pc = "idle"
    /\ runs >= 1
    /\ clock >= max_time
    /\ \E s \in StationIds : stations[s].state = PROCESSING

\* the stations 0 .. k-1 in line order
FirstStations(k) == [i \in 1..k |-> i - 1]

\* C12: linear routing: the stations that have finished an admitted job are
\* 0, 1, ..., k-1 in that order, once each; a job with k < N is at station k
\* and is not completed; a job with k = N is in completed_jobs exactly once
\* with its completion time recorded; total_processed of the last station is
\* the number of completed jobs and total_processed never increases down the
\* line.
C12_LinearRouting ==
    /\ DOMAIN visited = AdmittedJobs
    /\ \A j \in AdmittedJobs :
         LET k == Len(visited[j]) IN
         /\ k <= num_stations
         /\ visited[j] = FirstStations(k)
         /\ k < num_stations =>
              /\ \/ stations[k].current_job = j
                 \/ InSeq(j, stations[k].queue)
              /\ ~InSeq(j, completed_jobs)
              /\ j \notin DOMAIN job_completion_times
         /\ k = num_stations =>
              /\ Occurrences(j, completed_jobs) = 1
              /\ j \in DOMAIN job_completion_times
    /\ stations[num_stations - 1].total_processed = Len(completed_jobs)
    /\ system_wip = entity_counter - stations[num_stations - 1].total_processed
    /\ \A s \in StationIds :
         s + 1 \in StationIds =>
            stations[s].total_processed >= stations[s + 1].total_processed

\* on a two-station line one job went through both stations and another one
\* has left station 0
C12_Witness ==
    /\ num_stations = 2
    /\ \E j \in AdmittedJobs : visited[j] = << 0, 1 >>
    /\ \E j \in AdmittedJobs : visited[j] = << 0 >>

\* jobs held by the stations (in service or waiting)
JobsInLine ==
    SumOver([s \in StationIds |->
                (IF stations[s].current_job # None THEN 1 ELSE 0)
                + Len(stations[s].queue)], StationIds)

SumOfMeans ==
    SumOver([s \in StationIds |-> stations[s].mean_processing_time], StationIds)

InvalidCtorArgs(c) ==
    LET means == ArgOrDefault(c.mean_processing_times, c.num_stations, DefaultMean)
        cvs == ArgOrDefault(c.cv_processing, c.num_stations, DefaultCv)
    IN  \/ c.num_stations < 1
        \/ c.conwip_level < 1
        \/ \E i \in DOMAIN means : means[i] <= 0
        \/ \E i \in DOMAIN cvs : cvs[i] < 0
        \/ c.arrival_rate <= 0
        \/ Len(means) # c.num_stations

C14_InvalidConstructionFails ==
    (call.op = "__init__" /\ InvalidCtorArgs(call))
        => (raised # "none" /\ pc = "new")

\* C15 (as stated; the code does not do this): update_parameters with a
\* station id outside 0..N-1 fails with an out-of-range error and leaves the
\* parameters of every station unchanged.
C15_BadStationIdRejected ==
    [][(call' # call /\ call'.op = "update_parameters"
          /\ call'.station_id \notin 0..(num_stations - 1))
        => (raised' = "IndexError" /\ stations' = stations)]_vars

\* C16: admission rejection is a silent no-op: dispatching an Arrival while
\* system_wip = conwip_level raises nothing and leaves entity_counter,
\* system_wip, the job tables, the completed list, every station and the
\* pending events (the queue less the dispatched Arrival itself) unchanged;
\* only the clock and events_processed change.
CountIn(q, e) == Cardinality({ i \in DOMAIN q : q[i] = e })

SamePendingLess(q_after, q_before, popped) ==
    /\ Len(q_after) = Len(q_before) - 1
    /\ \A i \in DOMAIN q_before :
          CountIn(q_after, q_before[i]) =
            CountIn(q_before, q_before[i])
              - (IF q_before[i] = popped THEN 1 ELSE 0)

IsRejectionStep ==
    /\ IsDispatchStep
    /\ event'.event_type = ARRIVAL
    /\ system_wip = conwip_level

C16_RejectionIsNoOp ==
    [][IsRejectionStep =>
         /\ raised' = raised
         /\ entity_counter' = entity_counter
         /\ system_wip' = system_wip
         /\ job_arrival_times' = job_arrival_times
         /\ job_completion_times' = job_completion_times
         /\ completed_jobs' = completed_jobs
         /\ stations' = stations
         /\ SamePendingLess(event_queue', event_queue, event')
         /\ clock' = event'.time
         /\ stats'.total_entities = stats.total_entities
         /\ stats'.completed_entities = stats.completed_entities]_vars

\* an Arrival has just been dropped at the cap while other events are pending
\* and a job is in service
C16_Witness ==
    /\ pc = "running"
    /\ event.event_type = ARRIVAL
    /\ system_wip = conwip_level
    /\ stats.events_processed >= 2
    /\ event_queue # << >>
    /\ \A j \in DOMAIN job_arrival_times : job_arrival_times[j] < clock
    /\ \E s \in StationIds : stations[s].state = PROCESSING

\* C17: Little's Law round trip: in the record get_statistics returns, for
\* every warmup period, avg_wip = throughput * avg_cycle_time, and avg_wip is
\* 0 when no job is counted.
C17_LittlesLawRoundTrip ==
    \A warmup \in 0..MaxWarmup :
       LET r == get_statistics(Line, warmup)
       IN  /\ RatioEq(r.avg_wip, RatioTimes(r.throughput, r.avg_cycle_time))
           /\ r.total_completed = 0 => RatioEq(r.avg_wip, Zero)

\* a run has returned statistics with a positive avg_wip that differs from
\* the WIP then in the line, and a warmup period that excludes a completed job
C17_Witness ==
    /\ pc = "idle"
    /\ runs >= 1
    /\ LET r == get_statistics(Line, 0)
       IN  /\ r.total_completed >= 1
           /\ RatioPositive(r.avg_wip)
           /\ ~RatioEq(r.avg_wip, Ratio(system_wip, 1))
    /\ \E warmup \in 1..MaxWarmup :
          get_statistics(Line, warmup).total_completed
             < get_statistics(Line, 0).total_completed

\* C18: event-count termination of DiscreteEventSimulator.run(max_events = k):
\* no event is dispatched while events_processed >= k; events_processed grows
\* by exactly one per popped event and changes in no other step; a count that
\* is <= k stays <= k, so a run entered below k returns with at most k; and
\* the run returns with fewer than k only if the queue is empty or
\* clock >= max_time.
InsideRunLoop == pc = "sim_running" /\ pc' = "sim_running"

C18_EventCountTermination ==
    [][/\ (InsideRunLoop /\ max_events # None)
            => stats.events_processed < max_events
       /\ InsideRunLoop
            => /\ event' = heappop(event_queue)[1]
               /\ stats'.events_processed = stats.events_processed + 1
       /\ stats'.events_processed # stats.events_processed => InsideRunLoop
       /\ (pc = "sim_running" /\ max_events # None
              /\ stats.events_processed <= max_events)
            => stats'.events_processed <= max_events
       /\ (pc = "sim_running" /\ pc' = "idle" /\ max_events # None
              /\ stats'.events_processed < max_events)
            => \/ event_queue' = << >>
               \/ (max_time # None /\ clock' >= max_time)]_vars

\* a run returned because the event count reached k, with events still
\* pending and, if a time bound was given, the clock below it
C18_Witness ==
    /\ pc = "idle"
    /\ max_events # None
    /\ max_events >= 2
    /\ stats.events_processed = max_events
    /\ event_queue # << >>
    /\ max_time # None => clock < max_time

\* C19: reset() after any sequence of runs restores the initial state: clock
\* 0, empty event queue, zero simulator stats, entity_counter and system_wip
\* 0, empty job tables and completed list, every station as freshly built
\* from its current parameters; the station parameters, num_stations,
\* conwip_level and arrival_rate are left as they were. (The run that follows
\* starts from this state, so it is the run of a new line.)
IsResetStep == pc = "idle" /\ runs > 0 /\ runs' = 0

C19_ResetRestoresInitialState ==
    [][IsResetStep =>
         /\ clock' = 0
         /\ event_queue' = << >>
         /\ stats' = [total_entities |-> 0, completed_entities |-> 0,
                      events_processed |-> 0]
         /\ entity_counter' = 0
         /\ system_wip' = 0
         /\ job_arrival_times' = << >>
         /\ job_completion_times' = << >>
         /\ completed_jobs' = << >>
         /\ DOMAIN stations' = DOMAIN stations
         /\ \A s \in DOMAIN stations :
               stations'[s] = Station(stations[s].mean_processing_time,
                                       stations[s].cv_processing)
         /\ num_stations' = num_stations
         /\ conwip_level' = conwip_level
         /\ arrival_rate' = arrival_rate
         /\ pc' = "idle"]_vars

\* the line was reset after a run that dispatched a ProcessingEnd, and a
\* station carries parameters given by update_parameters
C19_Witness ==
    /\ runs = 0
    /\ pc = "idle"
    /\ clock = 0
    /\ event.event_type = PROCESSING_END
    /\ num_stations = 2
    /\ stations[0].mean_processing_time # stations[1].mean_processing_time

\* C21 (as stated; the code does not do this): the number of jobs admitted,
\* and hence the number completed, never exceeds the number of Arrival events
\* produced by generate_arrivals with time <= clock.
GeneratedUpTo(t) == Cardinality({ k \in DOMAIN generated : generated[k] <= t })

C21_AdmittedWithinGeneratedArrivals ==
    /\ entity_counter <= GeneratedUpTo(clock)
    /\ Len(completed_jobs) <= GeneratedUpTo(clock)

\* C22: the bottleneck limits throughput: at a station with deterministic
\* service (cv_processing = 0) total_processed * mean_processing_time <= clock
\* at every dispatch boundary, so on an all-deterministic line the number of
\* completed jobs times the largest station mean is at most the clock.
Deterministic(s) == stations[s].cv_processing = 0

C22_BottleneckLimitsThroughput ==
    /\ \A s \in StationIds :
          Deterministic(s) =>
             stations[s].total_processed * stations[s].mean_processing_time <= clock
    /\ \A s \in StationIds :
          ((\A r \in StationIds : Deterministic(r))
             => Len(completed_jobs) * stations[s].mean_processing_time <= clock)

\* C23: warmup trimming: get_statistics(warmup) counts exactly the completed
\* jobs whose arrival time is >= warmup; total_completed is that count;
\* throughput is the count divided by clock - warmup when clock > warmup and
\* 0 otherwise; with warmup = 0 total_completed is the number of jobs that
\* finished at the last station.
CompletedSince(warmup) ==
    { j \in AdmittedJobs : /\ j \in DOMAIN job_completion_times
                           /\ job_arrival_times[j] >= warmup }

FinishedAtLastStation ==
    { j \in DOMAIN visited : Len(visited[j]) = num_stations }

C23_WarmupTrimming ==
    /\ \A warmup \in 0..MaxWarmup :
         LET r == get_statistics(Line, warmup)
             n == Cardinality(CompletedSince(warmup))
         IN  /\ r.total_completed = n
             /\ IF clock > warmup
                THEN r.throughput = Ratio(n, clock - warmup)
                ELSE r.throughput = Zero
    /\ get_statistics(Line, 0).total_completed = Cardinality(FinishedAtLastStation)

\* statistics after a run where a warmup of 2 drops a completed job that
\* arrived earlier and keeps one that arrived exactly at time 2
C23_Witness ==
    /\ pc = "idle"
    /\ clock > 2
    /\ \E j \in CompletedSince(2) : job_arrival_times[j] = 2
    /\ \E j \in CompletedSince(0) : job_arrival_times[j] < 2
    /\ get_statistics(Line, 2).total_completed >= 1

\* C24 (as stated; the code does not do this): for every list of stations
\* with positive processing rates calculate_system_throughput returns
\* min(arrival_rate, min_i processing_rate_i), which exceeds no station's
\* processing rate.
RateOf(d) == dict_get(d, "processing_rate", DefaultRate)

C24_ThroughputIsBottleneckMin ==
    (call.op = "calculate_system_throughput" /\ call.returned)
      => LET sts == call.stations
             slowest == CHOOSE r \in { RateOf(sts[i]) : i \in DOMAIN sts } :
                           \A i \in DOMAIN sts : r <= RateOf(sts[i])
         IN  /\ call.value = IF call.arrival_rate <= slowest
                             THEN call.arrival_rate ELSE slowest
             /\ \A i \in DOMAIN sts : call.value <= RateOf(sts[i])

\* C25: stations are work-conserving: at every dispatch boundary a station
\* with a non-empty queue is Processing (an Idle station has an empty queue),
\* and a ProcessingEnd dispatched at a station with a non-empty queue
\* restarts that station at once on the head of its queue.
IsProcessingEndStep == IsDispatchStep /\ event'.event_type = PROCESSING_END

C25_WorkConserving ==
    /\ [](\A s \in StationIds :
             stations[s].queue # << >> => stations[s].state = PROCESSING)
    /\ [][(IsProcessingEndStep /\ stations[event'.station_id].queue # << >>)
            => LET s == event'.station_id
               IN  /\ stations'[s].state = PROCESSING
                   /\ stations'[s].current_job = Head(stations[s].queue)
                   /\ stations'[s].queue = Tail(stations[s].queue)]_vars

\* a ProcessingEnd has just restarted its station on a job that was waiting
C25_Witness ==
    /\ pc = "running"
    /\ event.event_type = PROCESSING_END
    /\ LET st == stations[event.station_id]
       IN  /\ st.state = PROCESSING
           /\ st.current_job # event.entity_id
           /\ st.queue = << >>
           /\ job_arrival_times[st.current_job] < clock

\* C26: the CONWIP pull signal: every ProcessingEnd dispatched at the last
\* station schedules exactly one new Arrival, with time equal to the clock
\* (the headroom test after the decrement of system_wip is always true), and
\* no other dispatch schedules an Arrival.
NewArrivals ==
    { i \in DOMAIN event_queue' :
         /\ event_queue'[i].event_type = ARRIVAL
         /\ event_queue'[i].seq > scheduled }

C26_PullSignal ==
    [][IsDispatchStep =>
         IF event'.event_type = PROCESSING_END
            /\ event'.station_id = num_stations - 1
         THEN /\ Cardinality(NewArrivals) = 1
              /\ \A i \in NewArrivals : event_queue'[i].time = clock'
              /\ system_wip - 1 < conwip_level
              /\ system_wip' = system_wip - 1
         ELSE NewArrivals = {}]_vars

\* a ProcessingEnd at the last station of a two-station line that was at its
\* cap has left the Arrival it scheduled, the newest event, in the queue
C26_Witness ==
    /\ pc = "running"
    /\ num_stations = 2
    /\ event.event_type = PROCESSING_END
    /\ event.station_id = 1
    /\ system_wip = conwip_level - 1
    /\ \E i \in DOMAIN event_queue :
          /\ event_queue[i].event_type = ARRIVAL
          /\ event_queue[i].time = clock
          /\ event_queue[i].seq = scheduled

\* C27: the queue de-duplication guard never fires: whenever a dispatch routes
\* a job to a busy station (an admitted Arrival to station 0, a ProcessingEnd
\* at station s < N-1 to station s+1) the job is not in that station's queue
\* and is appended to it; and every admitted, uncompleted job is at a station.
RoutedToBusy(s, j) ==
    /\ stations[s].state # IDLE
    /\ ~InSeq(j, stations[s].queue)
    /\ stations'[s].queue = Append(stations[s].queue, j)

C27_DedupGuardNeverFires ==
    /\ [][IsDispatchStep =>
            /\ (event'.event_type = ARRIVAL /\ system_wip < conwip_level
                   /\ stations[0].state # IDLE)
                 => RoutedToBusy(0, entity_counter + 1)
            /\ (event'.event_type = PROCESSING_END
                   /\ event'.station_id < num_stations - 1
                   /\ stations[event'.station_id + 1].state # IDLE)
                 => RoutedToBusy(event'.station_id + 1, event'.entity_id)]_vars
    /\ [](\A j \in AdmittedJobs :
             j \notin DOMAIN job_completion_times
               => \E s \in StationIds :
                     stations[s].current_job = j \/ InSeq(j, stations[s].queue))

\* a ProcessingEnd at station 0 has just queued its job behind the job in
\* service at station 1
C27_Witness ==
    /\ pc = "running"
    /\ num_stations = 2
    /\ event.event_type = PROCESSING_END
    /\ event.station_id = 0
    /\ stations[1].state = PROCESSING
    /\ stations[1].current_job # event.entity_id
    /\ stations[1].queue # << >>
    /\ stations[1].queue[Len(stations[1].queue)] = event.entity_id

\* C28: jobs never overtake each other: at every dispatch boundary each
\* station holds its jobs in admission order (the job in service before the
\* queued ones, the queue increasing in job id), and completed_jobs is
\* strictly increasing in job id with no job completed before its
\* predecessor, i.e. completed_jobs = << 1, 2, ..., k >>.
InAdmissionOrder(st) ==
    /\ \A i \in 1..(Len(st.queue) - 1) : st.queue[i] < st.queue[i + 1]
    /\ \A i \in 1..Len(st.queue) : st.current_job < st.queue[i]

C28_NoOvertaking ==
    /\ \A s \in StationIds : InAdmissionOrder(stations[s])
    /\ \A i \in 1..(Len(completed_jobs) - 1) :
          completed_jobs[i] < completed_jobs[i + 1]
    /\ \A i \in 1..Len(completed_jobs) : completed_jobs[i] = i

\* two jobs have completed and a job was started from a queue that held two
C28_Witness ==
    /\ Len(completed_jobs) >= 2
    /\ \E s \in StationIds :
          /\ stations[s].state = PROCESSING
          /\ stations[s].queue # << >>
          /\ event.event_type = PROCESSING_END
          /\ event.station_id = s

\* C29: at every dispatch boundary a station is Processing if and only if the
\* event queue holds exactly one pending PROCESSING_END event for it, and that
\* event carries the station's current_job; an Idle station has no pending
\* PROCESSING_END event.
C29_OnePendingEndPerBusyStation ==
    \A s \in StationIds :
       /\ stations[s].state = PROCESSING <=> Cardinality(PendingEnds(s)) = 1
       /\ stations[s].state = PROCESSING
            => \A i \in PendingEnds(s) :
                  event_queue[i].entity_id = stations[s].current_job
       /\ stations[s].state = IDLE => PendingEnds(s) = {}

\* both stations of a two-station line are in service, with a job waiting,
\* and an Arrival is pending beside the two ProcessingEnd events
C29_Witness ==
    /\ pc = "running"
    /\ num_stations = 2
    /\ \A s \in StationIds : stations[s].state = PROCESSING
    /\ \E s \in StationIds : stations[s].queue # << >>
    /\ Len(event_queue) >= 3

\* C30: the line never stalls: once a job has been admitted the event queue
\* is non-empty at every dispatch boundary (while system_wip > 0 some station
\* has a pending PROCESSING_END); a run in which a job was admitted returns
\* only through the max_time test, with events still pending; and an admitted
\* job is completed before the clock passes its admission time by more than
\* conwip_level * N longest service times, so every admitted job is completed
\* when the clock bound is large enough.
Completed(j) == j \in DOMAIN job_completion_times

\* the longest service time a station can take
ServiceTimes ==
    { ClampProcessingTime(get_processing_time(stations[s], gamma)) :
        s \in StationIds, gamma \in 0..MaxGamma }

LongestServiceInLine ==
    CHOOSE t \in ServiceTimes : \A u \in ServiceTimes : u <= t

CompletionBound == conwip_level * num_stations * LongestServiceInLine

C30_LineNeverStalls ==
    /\ [](entity_counter >= 1 => event_queue # << >>)
    /\ [](system_wip > 0 => \E s \in StationIds : PendingEnds(s) # {})
    /\ [][(pc = "running" /\ pc' = "idle" /\ entity_counter >= 1)
            => (clock >= max_time /\ event_queue # << >>)]_vars
    /\ [](\A j \in AdmittedJobs :
             ~Completed(j) => clock <= job_arrival_times[j] + CompletionBound)

\* a run has returned at the clock bound with the line empty: the last
\* completion left only its re-seeded Arrival (and later Arrivals) pending
C30_Witness ==
    /\ pc = "idle"
    /\ runs = 1
    /\ clock >= max_time
    /\ entity_counter >= 2
    /\ system_wip = 0
    /\ event_queue # << >>
    /\ \A j \in AdmittedJobs : Completed(j)

\* C31: no handler ever modifies a station's total_processing_time: it is 0
\* in every reachable state and no step changes it, so the
\* avg_processing_time reported in station_stats is 0 for every station,
\* however many jobs the station has processed.
C31_ProcessingTimeNeverRecorded ==
    /\ [](\A s \in StationIds :
             /\ stations[s].total_processing_time = 0
             /\ station_stats(Line)[s].total_processed = stations[s].total_processed
             /\ station_stats(Line)[s].avg_processing_time.num = 0)
    /\ [][\A s \in StationIds :
             stations'[s].total_processing_time = stations[s].total_processing_time]_vars

\* both stations of a two-station line have processed jobs for a positive
\* time, the last one at least two, and the reported average is still 0
C31_Witness ==
    /\ num_stations = 2
    /\ stations[0].total_processed >= 2
    /\ stations[1].total_processed >= 2
    /\ \A s \in StationIds :
         /\ RatioPositive(station_stats(Line)[s].utilization)
         /\ RatioEq(station_stats(Line)[s].avg_processing_time, Zero)

====
